---- MODULE Spec2Model ----
(***************************************************************************)
(* A model of teammy.api: the PersistenceProvider key/value store, the     *)
(* MeetingEngine singleton with its LLMProvider, and the InCallPlugin       *)
(* metadata and lifecycle callbacks.                                        *)
(*                                                                          *)
(* Python strings are sequences of one-character strings, so that the      *)
(* f-string that builds a store key is a real concatenation.                *)
(***************************************************************************)
EXTENDS Integers, Sequences, FiniteSets, TLC

\* ---------------------------------------------------------------- bounds
\* Most characters in a (plugin_name, meeting_id, key) drawn as an input.
MaxChars == 1
\* Number of PersistenceProvider.set calls in one behaviour.
MaxSets == 2

\* Number of MeetingEngine() constructions in one behaviour.
MaxConstructions == 3
\* Number of concurrent tasks (hook invocations) that call the LLMProvider.
MaxTasks == 3
\* Longest list of declared sources of a plugin's metadata.
MaxSources == 2
\* Largest num_packets passed to get_stream_history.
MaxPackets == 2

\* Characters of the strings drawn as inputs: a letter and the separator.
Chars == {"a", "+"}

\* All strings over Chars of length 0..MaxChars (str has no validation).
Strings == UNION {[1..n -> Chars] : n \in 0..MaxChars}

\* data.py: MeetingMetadata(meeting_id: str, plugin_name: str)
MeetingMetadata == [meeting_id : Strings, plugin_name : Strings]

\* Python values seen at the store's interface.
None == [kind |-> "None"]
Obj(v) == [kind |-> "obj", val |-> v]

\* The composite address the callers mean: (plugin_name, meeting_id, key).
Triple(info, key) == <<info.plugin_name, info.meeting_id, key>>
Triples == {t \in Strings \X Strings \X Strings : Len(t[1]) + Len(t[2]) + Len(t[3]) <= MaxChars}
\* The (info, key) arguments drawn as inputs.
Args == {a \in MeetingMetadata \X Strings : Triple(a[1], a[2]) \in Triples}

VARIABLES
    _store,     \* PersistenceProvider._store: dict from key string to object
    _history,   \* PersistenceProvider._history: dict, never written
    written,    \* history: Triple -> last value a set was issued with, or None
    nsets,      \* history: number of set calls so far
    op,         \* the last store call: set records its arguments, get records
                \* (as asked) what the last set on its own triple was issued with
    ret         \* what the last store call returned

storeVars == <<_store, _history, written, nsets, op, ret>>

VARIABLES
    _instance,     \* MeetingEngine._instance
    engines,       \* history: the objects MeetingEngine() has returned
    llms,          \* history: the objects llm() has returned
    datastores,    \* history: the objects datastore() has returned
    allocated,     \* number of MeetingEngine objects allocated
    constructions, \* history: number of MeetingEngine() calls
    client,        \* LLMProvider.client of the shared provider
    built,         \* number of AsyncOpenAI() clients constructed
    pc,            \* per task: "idle", "awaiting" (suspended in create), "done", "raised"
    call,          \* per task: "none", "prompt" or "fast_prompt"
    used           \* per task: the client its call reads from self.client

engineVars == <<_instance, engines, llms, datastores, allocated, constructions,
                client, built, pc, call, used>>

VARIABLES
    metadata,   \* the plugin's InCallPluginMetadata, None before get_metadata
    called,     \* history: the lifecycle callbacks that have run
    last        \* the last plugin-side call and how it ended

pluginVars == <<metadata, called, last>>

vars == <<storeVars, engineVars, pluginVars>>

\* ------------------------------------------------ PersistenceProvider
\* A variant that writes the key without the plugin name.
StoreKeyNoPlugin(info, key) == info.meeting_id \o <<"+">> \o key

\* f"{info.plugin_name}+{info.meeting_id}+{key}"
StoreKey(info, key) ==
    info.plugin_name \o <<"+">> \o info.meeting_id \o <<"+">> \o key

\* d[k] = v
DictSetItem(d, k, v) == [x \in DOMAIN d \cup {k} |-> IF x = k THEN v ELSE d[x]]

\* d.get(k): the value, or None when k is no key of d
DictGet(d, k) == IF k \in DOMAIN d THEN d[k] ELSE None

\* What get(info, key) returns in a store d.
GetResult(d, info, key) == DictGet(d, StoreKey(info, key))

EmptyDict == [x \in {} |-> None]

StoreInit ==
    /\ _store = EmptyDict
    /\ _history = EmptyDict
    /\ written = [t \in Triples |-> None]
    /\ nsets = 0
    /\ op = [name |-> "none"]
    /\ ret = None

\* async def set(self, info, key, data): no await inside, so one step
Set(info, key, data) ==
    /\ nsets < MaxSets
    /\ _store' = DictSetItem(_store, StoreKey(info, key), data)
    /\ written' = [written EXCEPT ![Triple(info, key)] = data]
    /\ nsets' = nsets + 1
    /\ op' = [name |-> "set", info |-> info, key |-> key, data |-> data]
    /\ ret' = None
    /\ UNCHANGED <<_history, engineVars, pluginVars>>

\* async def get(self, info, key)
Get(info, key) ==
    /\ ret' = GetResult(_store, info, key)
    /\ op' = [name |-> "get", asked |-> written[Triple(info, key)]]
    /\ UNCHANGED <<_store, _history, written, nsets, engineVars, pluginVars>>

\* Every set call passes an object of its own as data: Obj(n) for the n-th.
StoreNext ==
    \/ \E a \in Args : Set(a[1], a[2], Obj(nsets + 1))
    \/ \E a \in Args : Get(a[1], a[2])

\* ------------------------------------------- MeetingEngine, LLMProvider
\* _datastore = PersistenceProvider() and _llm = LLMProvider(): class
\* attributes, built once when the class body runs.
_datastore == Obj(<<"PersistenceProvider", 1>>)
_llm == Obj(<<"LLMProvider", 1>>)

Tasks == 1..MaxTasks

EngineInit ==
    /\ _instance = None
    /\ engines = {}
    /\ llms = {}
    /\ datastores = {}
    /\ allocated = 0
    /\ constructions = 0
    /\ client = None
    /\ built = 0
    /\ pc = [t \in Tasks |-> "idle"]
    /\ call = [t \in Tasks |-> "none"]
    /\ used = [t \in Tasks |-> None]

\* A variant of __new__ that allocates on every call.
NewAlwaysAllocates(instance, fresh) == fresh

\* __new__: cls._instance after the call, which is also what it returns
MeetingEngineNew(instance, fresh) == IF instance = None THEN fresh ELSE instance

\* MeetingEngine()
Construct ==
    /\ constructions < MaxConstructions
    /\ LET fresh == Obj(<<"MeetingEngine", allocated + 1>>)
           inst == MeetingEngineNew(_instance, fresh)
       IN /\ _instance' = inst
          /\ allocated' = IF inst = fresh THEN allocated + 1 ELSE allocated
          /\ engines' = engines \cup {inst}
    /\ constructions' = constructions + 1
    /\ UNCHANGED <<llms, datastores, client, built, pc, call, used, storeVars, pluginVars>>

\* def llm(self): return self._llm
Llm(self) ==
    /\ llms' = llms \cup {_llm}
    /\ UNCHANGED <<_instance, engines, datastores, allocated, constructions,
                   client, built, pc, call, used, storeVars, pluginVars>>

\* def datastore(self): return self._datastore
Datastore(self) ==
    /\ datastores' = datastores \cup {_datastore}
    /\ UNCHANGED <<_instance, engines, llms, allocated, constructions,
                   client, built, pc, call, used, storeVars, pluginVars>>

\* A variant of _init_client that builds a client on every call.
InitClientAlways(current, fresh) == fresh

\* _init_client: self.client after the call
InitClient(current, fresh) == IF current = None THEN fresh ELSE current

\* prompt / fast_prompt up to the suspension in create(...): _init_client has
\* no await of its own, so the test, the construction and the read of
\* self.client run without yielding to another task.
StartCall(t, name) ==
    /\ pc[t] = "idle"
    /\ llms # {}
    /\ LET fresh == Obj(<<"AsyncOpenAI", built + 1>>)
           c == InitClient(client, fresh)
       IN /\ client' = c
          /\ built' = IF c = fresh THEN built + 1 ELSE built
          /\ used' = [used EXCEPT ![t] = c]
    /\ pc' = [pc EXCEPT ![t] = "awaiting"]
    /\ call' = [call EXCEPT ![t] = name]
    /\ UNCHANGED <<_instance, engines, llms, datastores, allocated, constructions,
                   storeVars, pluginVars>>

\* async def fast_prompt(self, messages, temperature): model gpt-4o-mini
FastPrompt(t) == StartCall(t, "fast_prompt")

\* async def prompt(self, messages, temperature): model gpt-4o
Prompt(t) == StartCall(t, "prompt")

\* create(...) answers: return res.choices[0].message.content
Respond(t) ==
    /\ pc[t] = "awaiting"
    /\ pc' = [pc EXCEPT ![t] = "done"]
    /\ UNCHANGED <<_instance, engines, llms, datastores, allocated, constructions,
                   client, built, call, used, storeVars, pluginVars>>

\* create(...) raises (transport, authentication): the call propagates it
Raise(t) ==
    /\ pc[t] = "awaiting"
    /\ pc' = [pc EXCEPT ![t] = "raised"]
    /\ UNCHANGED <<_instance, engines, llms, datastores, allocated, constructions,
                   client, built, call, used, storeVars, pluginVars>>

EngineNext ==
    \/ Construct
    \/ \E e \in engines : Llm(e)
    \/ \E e \in engines : Datastore(e)
    \/ \E t \in Tasks : FastPrompt(t)
    \/ \E t \in Tasks : Prompt(t)
    \/ \E t \in Tasks : Respond(t)
    \/ \E t \in Tasks : Raise(t)

\* ------------------------------------------- InCallPlugin, its metadata
Sources == {"transcript", "audio"}
Versions == {"1.0.0"}
Configs == {Obj("config")}
Fields == {"name", "version", "sources", "config"}
SourceLists == UNION {[1..n -> Sources] : n \in 0..(MaxSources - 1)}

\* InCallPluginMetadata(name, version, sources, config)
InCallPluginMetadata(name, version, sources, config) ==
    [kind |-> "obj", name |-> name, version |-> version,
     sources |-> sources, config |-> config]

PluginInit ==
    /\ metadata = None
    /\ called = {}
    /\ last = [name |-> "none", result |-> None]

\* get_metadata: the one instance, gathered once during installation
GetMetadata(version, sources, config) ==
    /\ metadata = None
    /\ metadata' = InCallPluginMetadata(<<"p">>, version, sources, config)
    /\ last' = [name |-> "get_metadata", result |-> metadata']
    /\ UNCHANGED <<called, storeVars, engineVars>>

\* @dataclass(frozen=True): assigning a field raises FrozenInstanceError
SetAttr(field, value) ==
    /\ metadata # None
    /\ last' = [name |-> "__setattr__", result |-> Obj("FrozenInstanceError")]
    /\ UNCHANGED <<metadata, called, storeVars, engineVars>>

\* sources: list[str]: the list the frozen instance refers to is an
\* ordinary list, metadata.sources.append(s) changes it in place
SourcesAppend(s) ==
    /\ metadata # None
    /\ Len(metadata.sources) < MaxSources
    /\ metadata' = [metadata EXCEPT !.sources = Append(@, s)]
    /\ last' = [name |-> "sources.append", result |-> None]
    /\ UNCHANGED <<called, storeVars, engineVars>>

\* A lifecycle callback of the base class: its body is pass, it keeps no
\* state, checks nothing and returns None.
Callback(name) ==
    /\ called' = called \cup {name}
    /\ last' = [name |-> name, result |-> None]
    /\ UNCHANGED <<metadata, storeVars, engineVars>>

\* async def on_install(cls): pass
OnInstall == Callback("on_install")

\* async def on_startup(cls, config): pass
OnStartup(config) == Callback("on_startup")

\* async def get_data_receive_hooks(cls): pass
GetDataReceiveHooks == Callback("get_data_receive_hooks")

\* async def on_meeting_start(cls, meeting_info, engine): pass
OnMeetingStart(meeting_info, engine) == Callback("on_meeting_start")

\* async def on_meeting_end(cls, meeting_info, engine): pass
OnMeetingEnd(meeting_info, engine) == Callback("on_meeting_end")

\* async def on_shutdown(cls, engine): pass
OnShutdown(engine) == Callback("on_shutdown")

\* async def get_stream_history(self, info, num_packets, not_before): pass
GetStreamHistory(info, num_packets, not_before) ==
    /\ last' = [name |-> "get_stream_history", num_packets |-> num_packets,
                result |-> None]
    /\ UNCHANGED <<metadata, called, storeVars, engineVars>>

\* The execution context of the modelled plugin in one meeting, and the
\* engine the host hands to its callbacks.
PluginInfo == [meeting_id |-> <<"m">>, plugin_name |-> <<"p">>]
HostEngine == Obj(<<"MeetingEngine", 1>>)

PluginNext ==
    \/ \E v \in Versions, s \in SourceLists, c \in Configs : GetMetadata(v, s, c)
    \/ \E f \in Fields : SetAttr(f, Obj("other"))
    \/ \E s \in Sources : SourcesAppend(s)
    \/ OnInstall
    \/ \E c \in Configs : OnStartup(c)
    \/ GetDataReceiveHooks
    \/ OnMeetingStart(PluginInfo, HostEngine)
    \/ OnMeetingEnd(PluginInfo, HostEngine)
    \/ OnShutdown(HostEngine)
    \/ \E n \in 0..MaxPackets, nb \in {None, Obj(0)} :
          GetStreamHistory(PluginInfo, n, nb)

\* ------------------------------------------------------ specifications
Init == StoreInit /\ EngineInit /\ PluginInit

\* The store under set and get calls.
SpecStore == Init /\ [][StoreNext]_vars

\* The engine singleton and concurrent tasks calling the LLMProvider.
SpecEngine == Init /\ [][EngineNext]_vars

\* One plugin: its metadata, its lifecycle callbacks, its history query.
SpecPlugin == Init /\ [][PluginNext]_vars

\* ------------------------------------------------------------- claims

\* C1: a get(c, k) that follows a set(c, k, v), with no other set on (c, k)
\* in between, returns v.
C1_SetThenGet ==
    (op.name = "get" /\ op.asked # None) => ret = op.asked

\* C2: a set on one triple (plugin_name, meeting_id, key) never changes what
\* get returns for a different triple.
C2_TripleAddressesOneValue ==
    [][(op'.name = "set" /\ nsets' = nsets + 1)
          => \A b \in Args :
                Triple(b[1], b[2]) # Triple(op'.info, op'.key)
                => GetResult(_store', b[1], b[2]) = GetResult(_store, b[1], b[2])]_vars

\* C3: a set under plugin p1 never changes what get returns for another
\* plugin p2 with the same meeting and key.
C3_PluginIsolation ==
    [][(op'.name = "set" /\ nsets' = nsets + 1)
          => \A p2 \in Strings \ {op'.info.plugin_name} :
                GetResult(_store', [op'.info EXCEPT !.plugin_name = p2], op'.key)
                  = GetResult(_store, [op'.info EXCEPT !.plugin_name = p2], op'.key)]_vars

\* C3: a set has just run under one plugin while another plugin holds an
\* older value under the same meeting and key.
C3_Witness ==
    /\ op.name = "set"
    /\ \E p2 \in Strings \ {op.info.plugin_name} :
          /\ <<p2, op.info.meeting_id, op.key>> \in Triples
          /\ written[<<p2, op.info.meeting_id, op.key>>] # None
          /\ GetResult(_store, [op.info EXCEPT !.plugin_name = p2], op.key)
               = written[<<p2, op.info.meeting_id, op.key>>]

\* C4: a get on a triple no set was ever issued for returns None.
C4_UnsetIsNone ==
    (op.name = "get" /\ op.asked = None) => ret = None

\* C10: in every state each triple that was set reads back the value of the
\* last set issued on it, whatever sets ran on other triples.
C10_LastWriteWins ==
    \A b \in Args :
        written[Triple(b[1], b[2])] # None
        => GetResult(_store, b[1], b[2]) = written[Triple(b[1], b[2])]

\* C5: get_stream_history called with num_packets = N returns a list of at
\* most N entries in non-decreasing timestamp order.
C5_HistoryAtMostN ==
    last.name = "get_stream_history"
    => /\ last.result.kind = "list"
       /\ Len(last.result.items) <= last.num_packets
       /\ \A i, j \in 1..Len(last.result.items) :
             i < j => last.result.items[i].timestamp <= last.result.items[j].timestamp

\* C6: every MeetingEngine() yields the one instance, and every llm() and
\* datastore() call returns the one LLMProvider and the one
\* PersistenceProvider.
C6_SingleSharedInstance ==
    /\ allocated <= 1
    /\ Cardinality(engines) <= 1
    /\ engines \subseteq {_instance}
    /\ Cardinality(llms) <= 1
    /\ Cardinality(datastores) <= 1

\* C6: MeetingEngine() has been called more than once, and llm() and
\* datastore() have been called on what it returned.
C6_Witness ==
    /\ constructions >= 2
    /\ engines # {}
    /\ llms # {}
    /\ datastores # {}

\* C7: once the metadata instance exists, none of its fields changes.
C7_MetadataWriteOnce ==
    [][metadata # None => metadata' = metadata]_vars

\* C8: on_meeting_start before any on_startup fails with LifecycleError,
\* and on_startup succeeds every time it is called.
C8_LifecycleEnforced ==
    /\ (last.name = "on_meeting_start" /\ "on_startup" \notin called)
          => last.result = Obj("LifecycleError")
    /\ last.name = "on_startup" => last.result = None

\* C9: no client exists before the first prompt or fast_prompt call; under
\* every interleaving of the calls at most one client is ever built, and
\* every call that has started uses that one client.
C9_ClientBuiltOnce ==
    /\ built <= 1
    /\ (\A t \in Tasks : pc[t] = "idle") => (client = None /\ built = 0)
    /\ \A t \in Tasks :
          pc[t] # "idle" => (built = 1 /\ client # None /\ used[t] = client)

\* C9: a prompt and a fast_prompt call are suspended in create(...) at the
\* same time.
C9_Witness ==
    \E t1, t2 \in Tasks :
        /\ pc[t1] = "awaiting" /\ call[t1] = "prompt"
        /\ pc[t2] = "awaiting" /\ call[t2] = "fast_prompt"
====
